---- MODULE Spec2Model ----
(***************************************************************************)
(* Model of type_extractor: extract_all_nested_types and the recursive     *)
(* walk extract_all_nested_types_recursive over a type-annotation graph.   *)
(*                                                                         *)
(* Annotation values are named by strings; the tables isinstance_type,     *)
(* get_origin and get_args give what the host runtime (CPython 3.10-3.13,  *)
(* the versions on which the repository's tests pass) answers for each.    *)
(* The record classes' field lists are drawn in Init, so that the graph    *)
(* may be acyclic, diamond shaped, self-referential or mutually            *)
(* referential.  The recursion is modelled with an explicit stack of       *)
(* frames, one step per call entry and one per call return.                *)
(***************************************************************************)
EXTENDS Naturals, Sequences, FiniteSets, TLC

VARIABLES
    fields,          \* record class -> its declared field types, in order
    DEFAULT_IGNORE,  \* the module-level default ignore set (a mutable set object)
    calls            \* thread -> the state of its top-level call

vars == <<fields, DEFAULT_IGNORE, calls>>

(***************************************************************************)
(* Bounds                                                                  *)
(***************************************************************************)
MaxFields == 2
NumThreads == 2

Threads == 1..NumThreads

(***************************************************************************)
(* The annotation values of the model                                      *)
(***************************************************************************)
BaseModels == {"User"}
Dataclasses == {"Config"}
RecordClasses == BaseModels \cup Dataclasses
PlainClasses == {"int", "str", "list", "NoneType"}
\* the None object, and a string used as Annotated metadata
PlainValues == {"None", "'meta'"}
\* the list [int], first argument of Callable[[int], str]
ListValues == {"[int]"}
Generics ==
    {"Union[int,str]", "int|str", "int|list", "Optional[User]", "Config|None",
     "List[int]", "List[None]", "Dict[str,User]",
     "Annotated[List[int],'meta']", "Annotated[List[int],str]",
     "Annotated[User,Config]",
     "tuple[Union[int,str],int|str]", "Callable[[int],str]"}

Nodes == RecordClasses \cup PlainClasses \cup PlainValues \cup ListValues \cup Generics

\* typing.get_origin: the origin of a parameterized generic, "no_origin" otherwise
get_origin(n) ==
    CASE n \in {"Union[int,str]", "Optional[User]"} -> "Union"
      [] n \in {"int|str", "int|list", "Config|None"} -> "UnionType"
      [] n \in {"List[int]", "List[None]"} -> "list"
      [] n = "Dict[str,User]" -> "dict"
      [] n \in {"Annotated[List[int],'meta']", "Annotated[List[int],str]",
                "Annotated[User,Config]"} -> "Annotated"
      [] n = "tuple[Union[int,str],int|str]" -> "tuple"
      [] n = "Callable[[int],str]" -> "Callable"
      [] OTHER -> "no_origin"

\* typing.get_args
get_args(n) ==
    CASE n = "Union[int,str]" -> <<"int", "str">>
      [] n = "int|str" -> <<"int", "str">>
      [] n = "int|list" -> <<"int", "list">>
      [] n = "Optional[User]" -> <<"User", "NoneType">>
      [] n = "Config|None" -> <<"Config", "NoneType">>
      [] n = "List[int]" -> <<"int">>
      [] n = "List[None]" -> <<"NoneType">>
      [] n = "Dict[str,User]" -> <<"str", "User">>
      [] n = "Annotated[List[int],'meta']" -> <<"List[int]", "'meta'">>
      [] n = "Annotated[List[int],str]" -> <<"List[int]", "str">>
      [] n = "Annotated[User,Config]" -> <<"User", "Config">>
      [] n = "tuple[Union[int,str],int|str]" -> <<"Union[int,str]", "int|str">>
      [] n = "Callable[[int],str]" -> <<"[int]", "str">>
      [] OTHER -> <<>>

\* isinstance(root_type, type)
isinstance_type(n) == n \in RecordClasses \cup PlainClasses

\* hash(root_type) succeeds: a list object is unhashable
Hashable(n) == n \notin ListValues

Range(s) == {s[i] : i \in DOMAIN s}

\* root_type == other, as the set `seen` compares its members: a union compares
\* equal to any union over the same set of arguments, whichever its spelling
\* (typing.Union[...] or X | Y), and the two hash alike
PyEq(m, n) ==
    \/ m = n
    \/ /\ get_origin(m) \in {"Union", "UnionType"}
       /\ get_origin(n) \in {"Union", "UnionType"}
       /\ Range(get_args(m)) = Range(get_args(n))

\* bool(f.type)
Truthy(n) == n # "None"

(***************************************************************************)
(* extract_all_nested_types_recursive, up to its first nested call         *)
(***************************************************************************)
\* root_type in seen
InSeen(n, seen) == \E m \in seen : PyEq(m, n)

\* faulty variant: the node is never marked visited
SeenAddNothing(seen, n) == seen

\* seen.add(root_type)
SeenAdd(seen, n) == IF InSeen(n, seen) THEN seen ELSE seen \cup {n}

\* faulty variant: the class is never added
NonGenericResultNoClass(n) == {}

\* faulty variant: None and NoneType are not singled out
NonGenericResultNoNoneCheck(n) == IF isinstance_type(n) THEN {n} ELSE {}

\* branch 3: origin is None
NonGenericResult(n) ==
    IF n = "None" \/ n = "NoneType" THEN {}
    ELSE IF isinstance_type(n) THEN {n}
    ELSE {}

\* for arg in args: if arg is not type(None)
UnionChildren(args) == SelectSeq(args, LAMBDA a : a # "NoneType")

\* faulty variant: the metadata payloads are traversed too
AnnotatedChildrenAll(args) == args

\* real_type = args[0]
AnnotatedChildren(args) == <<args[1]>>

\* for f in fields(root_type): if f.type
DataclassChildren(fs) == SelectSeq(fs, Truthy)

\* The frame of a call that got past the cycle guard: the result set after the
\* node's own contribution, and the nested calls still to make, in order.
Frame(n, flds) ==
    IF n \in BaseModels THEN
        [node |-> n, result |-> {n}, todo |-> flds[n]]
    ELSE IF n \in Dataclasses THEN
        [node |-> n, result |-> {n}, todo |-> DataclassChildren(flds[n])]
    ELSE IF get_origin(n) = "no_origin" THEN
        [node |-> n, result |-> NonGenericResult(n), todo |-> <<>>]
    ELSE IF get_origin(n) = "Union" THEN
        [node |-> n, result |-> {get_origin(n)}, todo |-> UnionChildren(get_args(n))]
    ELSE IF get_origin(n) = "Annotated" THEN
        [node |-> n, result |-> {get_origin(n)}, todo |-> AnnotatedChildren(get_args(n))]
    ELSE
        [node |-> n, result |-> {get_origin(n)}, todo |-> get_args(n)]

(***************************************************************************)
(* The state of one top-level call                                         *)
(***************************************************************************)
\* the `ignore` argument: omitted (the module's DEFAULT_IGNORE object), None,
\* or a set object of the caller's
IgnoreDefault == [kind |-> "default", val |-> {}]
IgnoreNone == [kind |-> "none", val |-> {}]
IgnoreSet(S) == [kind |-> "set", val |-> S]

IdleCall ==
    [pc |-> "idle", root_type |-> "None", ignore |-> IgnoreNone, given |-> IgnoreNone,
     seen |-> {}, stack |-> <<>>, out |-> {}, visits |-> <<>>, later |-> FALSE]

\* faulty variant: the visited set of the previous call is reused
StaleSeen(c) == c.seen

\* seen=set() at the top-level call
NewSeen(c) == {}

\* the call of extract_all_nested_types(r, ignore=i), up to the recursive call
StartCall(c, r, i) ==
    [pc |-> "call", root_type |-> r, ignore |-> i, given |-> i,
     seen |-> NewSeen(c), stack |-> <<>>, out |-> {}, visits |-> <<>>,
     later |-> c.pc # "idle"]

Top(c) == c.stack[Len(c.stack)]

\* the argument of the nested call about to be made
Target(c) == IF c.stack = <<>> THEN c.root_type ELSE Head(Top(c).todo)

\* `result |= <returned set>` in the caller, which then moves to its next argument
Merge(frame, returned) ==
    [frame EXCEPT !.result = @ \cup returned, !.todo = Tail(@)]

\* One entry into extract_all_nested_types_recursive. sn is the set object the
\* `seen` parameter refers to.
EnterCall(c, sn, flds) ==
    LET t == Target(c) IN
    IF ~Hashable(t) THEN
        \* `root_type in seen` raises TypeError, which no frame catches
        [c EXCEPT !.pc = "raised", !.stack = <<>>]
    ELSE IF InSeen(t, sn) THEN
        \* return set()
        IF c.stack = <<>>
        THEN [c EXCEPT !.pc = "filter", !.out = {}]
        ELSE [c EXCEPT !.stack[Len(c.stack)] = Merge(@, {})]
    ELSE
        [c EXCEPT !.pc = "walk",
                  !.seen = SeenAdd(sn, t),
                  !.stack = Append(@, Frame(t, flds)),
                  !.visits = Append(@, t)]

\* `return result` of the innermost frame
ReturnCall(c) ==
    LET n == Len(c.stack) IN
    IF n = 1
    THEN [c EXCEPT !.pc = "filter", !.out = c.stack[1].result, !.stack = <<>>]
    ELSE [c EXCEPT !.stack = [SubSeq(c.stack, 1, n - 1) EXCEPT ![n - 1] = Merge(@, c.stack[n].result)]]

\* faulty variant: out ^= ignore
SubtractSymmetric(out, ignore) ==
    [out |-> (out \ ignore) \cup (ignore \ out), ignore |-> ignore]

\* faulty variant: the subtraction is skipped
SubtractNothing(out, ignore) == [out |-> out, ignore |-> ignore]

\* out -= ignore: the effect of the statement on both set objects
Subtract(out, ignore) == [out |-> out \ ignore, ignore |-> ignore]

\* if ignore is not None: out -= ignore; return out
FinishCall(c, dflt) ==
    IF c.ignore.kind = "none" THEN
        [call |-> [c EXCEPT !.pc = "returned"], dflt |-> dflt]
    ELSE IF c.ignore.kind = "default" THEN
        LET s == Subtract(c.out, dflt) IN
        [call |-> [c EXCEPT !.pc = "returned", !.out = s.out], dflt |-> s.ignore]
    ELSE
        LET s == Subtract(c.out, c.ignore.val) IN
        [call |-> [c EXCEPT !.pc = "returned", !.out = s.out, !.ignore.val = s.ignore],
         dflt |-> dflt]

\* faulty variant: one visited set shared by all the threads
VisitedShared(cs, p) == UNION {cs[q].seen : q \in DOMAIN cs}

\* the visited set thread p's walk consults and updates
VisitedSet(cs, p) == cs[p].seen

(***************************************************************************)
(* Inputs                                                                  *)
(***************************************************************************)
DefaultIgnoreValue ==
    {"NoneType", "ellipsis", "UnionType", "Union", "list", "List", "Annotated",
     "tuple", "Tuple"}

CustomIgnores == {{"User", "Union", "dict"}}
IgnoreArgs == {IgnoreDefault, IgnoreNone} \cup {IgnoreSet(S) : S \in CustomIgnores}

UserFieldTypes == {"User", "Optional[User]", "Dict[str,User]", "Config"}
ConfigFieldTypes == {"None", "User"}

\* the annotations handed to a top-level call
Roots == RecordClasses \cup Generics \cup {"int", "list", "NoneType", "None", "[int]"}

SeqsUpTo(S, k) == UNION {[1..m -> S] : m \in 0..k}

Init ==
    /\ fields \in {[c \in RecordClasses |->
                      IF c = "User" THEN u ELSE d] :
                   u \in SeqsUpTo(UserFieldTypes, MaxFields),
                   d \in SeqsUpTo(ConfigFieldTypes, MaxFields)}
    /\ DEFAULT_IGNORE = DefaultIgnoreValue
    /\ calls = [p \in Threads |-> IdleCall]

(***************************************************************************)
(* Actions                                                                 *)
(***************************************************************************)
Call(p, r, i) ==
    /\ calls[p].pc \in {"idle", "returned", "raised"}
    /\ calls' = [calls EXCEPT ![p] = StartCall(@, r, i)]
    /\ UNCHANGED <<fields, DEFAULT_IGNORE>>

CallOnce(p, r, i) ==
    /\ calls[p].pc = "idle"
    /\ calls' = [calls EXCEPT ![p] = StartCall(@, r, i)]
    /\ UNCHANGED <<fields, DEFAULT_IGNORE>>

Enter(p) ==
    /\ \/ calls[p].pc = "call"
       \/ calls[p].pc = "walk" /\ Top(calls[p]).todo # <<>>
    /\ calls' = [calls EXCEPT ![p] = EnterCall(@, VisitedSet(calls, p), fields)]
    /\ UNCHANGED <<fields, DEFAULT_IGNORE>>

Return(p) ==
    /\ calls[p].pc = "walk"
    /\ Top(calls[p]).todo = <<>>
    /\ calls' = [calls EXCEPT ![p] = ReturnCall(@)]
    /\ UNCHANGED <<fields, DEFAULT_IGNORE>>

Finish(p) ==
    /\ calls[p].pc = "filter"
    /\ LET f == FinishCall(calls[p], DEFAULT_IGNORE) IN
       /\ calls' = [calls EXCEPT ![p] = f.call]
       /\ DEFAULT_IGNORE' = f.dflt
    /\ UNCHANGED fields

\* one thread making top-level calls one after the other
Next ==
    \/ \E r \in Roots, i \in IgnoreArgs : Call(1, r, i)
    \/ Enter(1)
    \/ Return(1)
    \/ Finish(1)

Spec == Init /\ [][Next]_vars

\* a single top-level call; the interpreter keeps running a call that has begun
NextOnce ==
    \/ \E r \in Roots, i \in IgnoreArgs : CallOnce(1, r, i)
    \/ Enter(1)
    \/ Return(1)
    \/ Finish(1)

TermSpec ==
    /\ Init
    /\ [][NextOnce]_vars
    /\ WF_vars(Enter(1) \/ Return(1) \/ Finish(1))

(***************************************************************************)
(* Two threads, each making one top-level call, their steps interleaved    *)
(***************************************************************************)
ConcRoots == {"User", "Config", "Optional[User]"}
ConcIgnores == {IgnoreDefault, IgnoreNone}

NextConc ==
    \E p \in Threads :
        \/ \E r \in ConcRoots, i \in ConcIgnores : CallOnce(p, r, i)
        \/ Enter(p)
        \/ Return(p)
        \/ Finish(p)

\* record classes that refer to themselves and to each other
ConcGraphs ==
    {[c \in RecordClasses |-> IF c = "User" THEN <<"Config", "User">> ELSE <<"User">>],
     [c \in RecordClasses |-> IF c = "User" THEN <<"Optional[User]">> ELSE <<"None", "User">>],
     [c \in RecordClasses |-> IF c = "User" THEN <<"Dict[str,User]", "Config">> ELSE <<>>]}

ConcInit ==
    /\ fields \in ConcGraphs
    /\ DEFAULT_IGNORE = DefaultIgnoreValue
    /\ calls = [p \in Threads |-> IdleCall]

ConcSpec == ConcInit /\ [][NextConc]_vars

(***************************************************************************)
(* A call run alone from a freshly loaded module: the reference the        *)
(* relational properties compare against                                   *)
(***************************************************************************)
RECURSIVE Walk(_, _)
Walk(c, flds) ==
    IF c.pc \in {"filter", "raised"} THEN c
    ELSE IF c.pc = "call" \/ Top(c).todo # <<>> THEN Walk(EnterCall(c, c.seen, flds), flds)
    ELSE Walk(ReturnCall(c), flds)

Alone(r, i) ==
    LET w == Walk(StartCall(IdleCall, r, i), fields) IN
    IF w.pc = "raised" THEN w ELSE FinishCall(w, DefaultIgnoreValue).call

\* the states a call run alone goes through
RECURSIVE Trajectory(_)
Trajectory(c) ==
    IF c.pc \in {"returned", "raised"} THEN {c}
    ELSE IF c.pc = "filter" THEN {c} \cup Trajectory(FinishCall(c, DefaultIgnoreValue).call)
    ELSE IF c.pc = "call" \/ Top(c).todo # <<>>
         THEN {c} \cup Trajectory(EnterCall(c, c.seen, fields))
    ELSE {c} \cup Trajectory(ReturnCall(c))

\* the set an ignore argument stands for
IgnoreValue(i) == IF i.kind = "default" THEN DefaultIgnoreValue ELSE i.val

Returned(p) == calls[p].pc = "returned"
Unfiltered(p) == calls[p].given = IgnoreNone
ByDefault(p) == calls[p].given = IgnoreDefault
IsUnion(n) == get_origin(n) \in {"Union", "UnionType"}

(***************************************************************************)
(* C1: reachability                                                        *)
(***************************************************************************)
\* the traversal edges and own contributions as the claim states them
ClaimEdges(n) ==
    IF n \in RecordClasses THEN Range(fields[n])
    ELSE IF IsUnion(n) THEN Range(get_args(n)) \ {"NoneType"}
    ELSE IF get_origin(n) = "Annotated" THEN {get_args(n)[1]}
    ELSE Range(get_args(n))

ClaimOwn(n) ==
    IF n \in RecordClasses \cup (PlainClasses \ {"NoneType"}) THEN {n}
    ELSE IF n \in Generics THEN {get_origin(n)}
    ELSE {}

RECURSIVE ReachFrom(_)
ReachFrom(S) ==
    LET T == S \cup UNION {ClaimEdges(n) : n \in S} IN
    IF T = S THEN S ELSE ReachFrom(T)

\* C1: a call with ignore=None returns exactly the union of the own
\* contributions of all nodes reachable from the root along traversal edges;
\* the visited-set guard loses no reachable type.
C1_ResultIsReachableUnion ==
    (Returned(1) /\ Unfiltered(1)) =>
        calls[1].out = UNION {ClaimOwn(n) : n \in ReachFrom({calls[1].root_type})}

(***************************************************************************)
(* C2: termination                                                         *)
(***************************************************************************)
\* C2: every top-level call that has begun eventually returns a result.
C2_CallEventuallyReturns == (calls[1].pc = "call") ~> Returned(1)

(***************************************************************************)
(* C3: a plain class with no fields                                        *)
(***************************************************************************)
\* C3 as stated: for a plain class T with no declared fields, the call with
\* default arguments returns exactly {T}.
C3_PlainClassReturnsItself ==
    (Returned(1) /\ ByDefault(1) /\ calls[1].root_type \in PlainClasses) =>
        calls[1].out = {calls[1].root_type}

\* C3 amended: for a plain class T with no declared fields, the call with
\* default arguments returns {T} when T is not in the default ignore set, and
\* the empty set when it is.
C3_PlainClassMinusDefaultIgnore ==
    (Returned(1) /\ ByDefault(1) /\ calls[1].root_type \in PlainClasses) =>
        calls[1].out = {calls[1].root_type} \ DefaultIgnoreValue

C3_Witness ==
    Returned(1) /\ ByDefault(1) /\ calls[1].root_type = "int" /\ calls[1].out = {"int"}

(***************************************************************************)
(* C4: the ignore set filters the final result only                        *)
(***************************************************************************)
\* C4: for every root and every non-null ignore set I, the call returns what
\* the call with ignore=None returns, minus I; nothing reachable through an
\* ignored record class, union marker or container origin is pruned.
C4_IgnoreIsFinalSubtraction ==
    (Returned(1) /\ ~Unfiltered(1)) =>
        LET raw == Alone(calls[1].root_type, IgnoreNone) IN
        /\ raw.pc = "returned"
        /\ calls[1].out = raw.out \ IgnoreValue(calls[1].given)

C4_Witness ==
    /\ Returned(1)
    /\ calls[1].given = IgnoreSet({"User", "Union", "dict"})
    /\ calls[1].root_type = "Optional[User]"
    /\ "User" \notin calls[1].out
    /\ "Config" \in calls[1].out
    /\ "str" \in calls[1].out

(***************************************************************************)
(* C5: the absence marker                                                  *)
(***************************************************************************)
\* C5: with ignore=None the result never contains NoneType, and it is empty
\* when the root is None or NoneType.
C5_NoneContributesNothing ==
    (Returned(1) /\ Unfiltered(1)) =>
        /\ "NoneType" \notin calls[1].out
        /\ "None" \notin calls[1].out
        /\ calls[1].root_type \in {"None", "NoneType"} => calls[1].out = {}

C5_Witness ==
    /\ Returned(1) /\ Unfiltered(1)
    /\ calls[1].root_type = "Optional[User]"
    /\ "None" \in Range(fields["Config"])
    /\ "Config" \in calls[1].out

(***************************************************************************)
(* C6: a union of two plain classes                                        *)
(***************************************************************************)
TwoClassUnion(n) ==
    /\ IsUnion(n)
    /\ Len(get_args(n)) = 2
    /\ Range(get_args(n)) \subseteq PlainClasses

UnionMarkers == {"Union", "UnionType"}

\* C6 as stated: for a union A | B of two non-structural types the call with
\* the default ignore set returns exactly {A, B}, and a union marker is in a
\* result only when filtering is disabled (ignore=None).
C6_UnionReturnsBothAlternatives ==
    Returned(1) =>
        /\ (ByDefault(1) /\ TwoClassUnion(calls[1].root_type)) =>
               calls[1].out = Range(get_args(calls[1].root_type))
        /\ (calls[1].out \cap UnionMarkers # {}) => Unfiltered(1)

\* C6 amended: for a union A | B of two plain classes the call with the
\* default ignore set returns {A, B} minus the default ignore set, with no
\* union marker in it; a union marker is in a result only when the call's
\* ignore argument is None or a set that does not contain that marker.
C6_UnionMinusDefaultIgnore ==
    Returned(1) =>
        /\ (ByDefault(1) /\ TwoClassUnion(calls[1].root_type)) =>
               calls[1].out = Range(get_args(calls[1].root_type)) \ DefaultIgnoreValue
        /\ ByDefault(1) => calls[1].out \cap UnionMarkers = {}
        /\ \A m \in calls[1].out \cap UnionMarkers :
               Unfiltered(1) \/ m \notin IgnoreValue(calls[1].given)

C6_Witness ==
    /\ Returned(1) /\ ByDefault(1)
    /\ calls[1].root_type = "int|str"
    /\ calls[1].out = {"int", "str"}

C8_CallsAreIndependent ==
    /\ DEFAULT_IGNORE = DefaultIgnoreValue
    /\ calls[1].ignore = calls[1].given
    /\ calls[1].pc \in {"returned", "raised"} =>
           LET a == Alone(calls[1].root_type, calls[1].given) IN
           /\ a.pc = calls[1].pc
           /\ Returned(1) => a.out = calls[1].out

C8_Witness ==
    /\ Returned(1)
    /\ calls[1].later
    /\ calls[1].root_type = "User"
    /\ ByDefault(1)
    /\ "Config" \in calls[1].out

(***************************************************************************)
(* C9: interleaved calls                                                   *)
(***************************************************************************)
\* C9: whatever the interleaving, each thread's call goes through the states
\* it goes through when run alone (its own visited set, stack and result) and
\* returns the set it returns when run alone.
C9_InterleavedCallsRunAsAlone ==
    \A p \in Threads :
        calls[p].pc # "idle" =>
            /\ calls[p] \in Trajectory(StartCall(IdleCall, calls[p].root_type, calls[p].given))
            /\ Returned(p) => calls[p].out = Alone(calls[p].root_type, calls[p].given).out

C9_Witness ==
    /\ calls[1].pc = "walk" /\ Len(calls[1].visits) >= 2
    /\ Returned(2) /\ calls[2].out # {}
    /\ calls[1].seen \cap calls[2].seen # {}
    /\ calls[1].seen # calls[2].seen

(***************************************************************************)
(* C10: no node is processed twice                                         *)
(***************************************************************************)
Walking(c) == c.pc = "walk"

\* every node dispatched on was marked visited first, no two dispatches are on
\* equal nodes, and a record class in any result set was dispatched on once
C10_State(c) ==
    /\ \A i \in DOMAIN c.visits : InSeen(c.visits[i], c.seen)
    /\ \A i \in DOMAIN c.stack : c.stack[i].node \in c.seen
    /\ \A i, j \in DOMAIN c.visits : PyEq(c.visits[i], c.visits[j]) => i = j
    /\ \A r \in RecordClasses :
           (r \in c.out \/ \E i \in DOMAIN c.stack : r \in c.stack[i].result) =>
               Cardinality({i \in DOMAIN c.visits : c.visits[i] = r}) = 1

\* within a traversal the visited set only grows, and a nested call on a
\* visited node returns the empty set without dispatching
C10_Step(c, d) ==
    Walking(c) =>
        /\ c.seen \subseteq d.seen
        /\ (Top(c).todo # <<>> /\ Hashable(Target(c)) /\ InSeen(Target(c), c.seen)) =>
               /\ d.visits = c.visits
               /\ d.seen = c.seen
               /\ d.stack = [c.stack EXCEPT ![Len(c.stack)].todo = Tail(@)]

\* C10: within one traversal no node is processed twice: the visited set only
\* grows, a node is inserted before its children are recursed into, and a
\* call on a visited node returns the empty set without dispatching.
C10_NoNodeProcessedTwice ==
    /\ []C10_State(calls[1])
    /\ [][C10_Step(calls[1], calls'[1])]_vars

C10_Witness ==
    /\ calls[1].pc = "filter"
    /\ calls[1].root_type = "User"
    /\ fields["User"] = <<"User", "Optional[User]">>
    /\ calls[1].visits = <<"User", "Optional[User]">>

====
